---- MODULE Spec2Model ----
(***************************************************************************)
(* Verification model of arthurdehgan/camcan:                              *)
(*   - create_loaders (dataloaders.py): the subject partitioner            *)
(*   - train and the __main__ block (cnn.py, autoencoder.py): the          *)
(*     resumable training loop with patience-based early stopping, the     *)
(*     checkpoint file (.pt) and the ledger file (.mat).                   *)
(***************************************************************************)
EXTENDS Integers, Sequences, FiniteSets, TLC

(***************************************************************************)
(* Bounds of the model                                                     *)
(***************************************************************************)
\* number of distinct subjects of trials_df_clean.csv
PoolSize == 4
\* ages are 0..MaxAge (or missing); the age range arguments range over them
MaxAge == 1
\* the --max-subj argument ranges over 0..MaxSubj
MaxSubj == 4
\* the --seed argument ranges over 0..MaxSeed
MaxSeed == 575
\* the --train_size argument ranges over k/FracDen, k in 0..FracDen
FracDen == 2
\* validation losses are 0..MaxLoss; train only compares them with <
MaxLoss == 2
\* the --patience argument ranges over 1..MaxP
MaxP == 3
\* a train loader holds 1..MaxBatches batches
MaxBatches == 2
\* draws other code takes from the torch generator between two calls of
\* create_loaders: 0..MaxDraws
MaxDraws == 1
\* optimizer steps taken over all processes (caps the epoch loop)
MaxSteps == 5
\* processes (runs of the script, or calls of train) started on one save path
MaxRuns == 2

\* a dataframe handed to a loader holds the trials of 1..MaxLoadSubj subjects
MaxLoadSubj == 2
\* every subject has 1..MaxTrials trials
MaxTrials == 2
\* time points of a trial (end - begin)
SegLen == 2
\* frequency bins of a power spectrum (NBINS)
NBins == 1
\* the recordings on disk are drawn from the tables 0..MaxData
MaxData == 2
\* the row orders of a dataframe are drawn from the shuffles 0..MaxShuffle
MaxShuffle == 3

(***************************************************************************)
(* Program constants                                                       *)
(***************************************************************************)
\* default of the parameter p of train
DefaultP == 20
\* default of --patience
DefaultPatience == 20
\* the batch index from which a timing call returns (i >= 999)
TimingLastIndex == 999

(***************************************************************************)
(* State                                                                   *)
(***************************************************************************)
VARIABLES
    \* ---- create_loaders ----
    ages,        \* clean_participant_new.csv: subject -> age, or NoAge
    args,        \* the arguments of the call of create_loaders
    splitPc,     \* "call" before create_loaders ran, "done" after
    splits,      \* the subject sets of the three dataframes <<train, valid, test>>
    torch_rng,   \* the state of torch's default generator
    calls,       \* the calls of create_loaders so far: generator state at entry,
                 \* ages table, arguments, resulting subject sets
    opts,        \* the arguments include, chunkload and dtype of the call
    loaders,     \* what the call returned: the list of three loaders
    built,       \* the splits a dataset was built for (create_dataset or load_fn)
    \* ---- load_data and chunkedMegDataset ----
    loadIn,      \* the dataframe, the configuration and the files on disk
    eager,       \* what load_data did with it
    chunked,     \* what chunkedMegDataset.__getitem__ did with it, index by index
    \* ---- files under save_path (they outlive a process) ----
    ckpt,        \* <name>.pt: [exists, epoch, state]
    ledger,      \* <name>.mat: [exists, loss_score, best_epoch, n_epochs, ...]
    \* ---- the running process ----
    pc,          \* position of the process in __main__ / train
    entry,       \* "main", "times" (the --times branch) or "call" (train called with default mode)
    mode,        \* the mode argument of train
    save_model,  \* argument of train
    load_model,  \* argument of train
    timing,      \* argument of train
    patience,    \* the global patience (args.patience)
    p,           \* argument of train
    n_batches,   \* len(trainloader)
    epoch,       \* local of train
    j,           \* local of train: the patience counter
    best_vloss,  \* local of train
    best_epoch,  \* local of train (Undef while unbound)
    valid_losses, \* local of train
    train_losses, \* local of train
    valid_loss,  \* local of train: the validation loss of the current epoch
    lpatience,   \* local of train: the patience the ledger was written with
    answer,      \* local of train: the operator's answer to the prompt, NoAnswer before
    i,           \* local of train: batch index, 0-based
    net,         \* the weights of net (and the optimizer state), as a version number
    netMode,     \* net.training: "train" or "eval"
    exitCode,    \* exit status of the process, NoExit while it runs
    \* ---- history variables ----
    nsteps,      \* optimizer steps taken so far, over all processes
    runs,        \* processes started so far
    best_state,  \* the weights net had when best_epoch was last assigned
    start_epoch, \* the value of epoch when the loop of this call was entered
    nwrites,     \* writes of the checkpoint or ledger file by this process
    steps0,      \* the value of nsteps when this process started
    had_ckpt,    \* whether the checkpoint file existed when this process started
    resumed      \* whether this call of train took the loading branch

splitVars == <<ages, args, splitPc, splits, torch_rng, calls, opts, loaders, built>>

loadVars == <<loadIn, eager, chunked>>

diskVars == <<ckpt, ledger>>

callVars == <<entry, mode, save_model, load_model, timing, patience, p, n_batches>>

trainVars ==
    <<epoch, j, best_vloss, best_epoch, valid_losses, train_losses, valid_loss,
      lpatience, answer, i>>

netVars == <<net, netMode>>

histVars == <<nsteps, runs, best_state, start_epoch, nwrites, steps0, had_ckpt, resumed>>

\* a missing age (NaN after the left merge)
NoAge == 0 - 1
Subjects == 1 .. PoolSize

(***************************************************************************)
(* Helpers on sequences                                                    *)
(***************************************************************************)
Min(a, b) == IF a <= b THEN a ELSE b

Range(s) == {s[ix] : ix \in DOMAIN s}

RemoveAt(s, at) == SubSeq(s, 1, at - 1) \o SubSeq(s, at + 1, Len(s))

RECURSIVE Fact(_)
Fact(n) == IF n <= 1 THEN 1 ELSE n * Fact(n - 1)

(***************************************************************************)
(* The seeded generators.  np.random.RandomState(seed).permutation and the *)
(* torch generator seeded by torch.manual_seed(seed) are deterministic     *)
(* functions of the seed and the length.  Which function is a detail of    *)
(* the generator; the model decodes the seed as a mixed-radix number, so   *)
(* that the seeds 0 .. n!*n!-1 produce every pair of permutations.         *)
(***************************************************************************)
RECURSIVE PermFrom(_, _)
PermFrom(k, items) ==
    IF items = <<>> THEN <<>>
    ELSE LET f == Fact(Len(items) - 1)
             ix == ((k \div f) % Len(items)) + 1
         IN  <<items[ix]>> \o PermFrom(k % f, RemoveAt(items, ix))

\* rng.permutation(range(n)), 1-based
NumpyPermutation(seed, n) == PermFrom(seed % Fact(n), [ix \in 1 .. n |-> ix])

\* torch.randperm(n) under the default generator after torch.manual_seed(seed)
TorchRandperm(seed, n) == PermFrom((seed \div Fact(PoolSize)) % Fact(n), [ix \in 1 .. n |-> ix])

(***************************************************************************)
(* create_loaders                                                          *)
(***************************************************************************)
\* subs: the unique subjects of samples_df, in order of first appearance
UniqueSubs == [ix \in 1 .. PoolSize |-> ix]

\* between() with both bounds left out: inclusive="neither"
AgeBetweenOpen(ag, s, lo, hi) == ag[s] # NoAge /\ lo < ag[s] /\ ag[s] < hi

\* subs[subs["age"].between(*age)]: the left merge gives a subject without a
\* row in the ages table a missing age, and between() is False on a missing
\* age; both bounds are inclusive.
AgeBetween(ag, s, lo, hi) == ag[s] # NoAge /\ lo <= ag[s] /\ ag[s] <= hi

RECURSIVE FilterAge(_, _, _, _)
FilterAge(ag, subs, lo, hi) ==
    IF subs = <<>> THEN <<>>
    ELSE (IF AgeBetween(ag, Head(subs), lo, hi) THEN <<Head(subs)>> ELSE <<>>)
         \o FilterAge(ag, Tail(subs), lo, hi)

\* subs = subs[idx]
Permuted(subs, idx) == [ix \in 1 .. Len(subs) |-> subs[idx[ix]]]

\* subs = subs[:max_subj]  (max_subj >= 0)
Truncate(subs, max_subj) == SubSeq(subs, 1, Min(max_subj, Len(subs)))

\* line 119: int(N * train_size) for the fraction num / den
TrainSizeOf(N, num, den) == (N * num) \div den

\* line 122 rounding up: the extra subject of an odd remainder goes to valid
ValidOfCeil(N, tr) == ((N - tr) + 1) \div 2

\* lines 121-122: valid_size = int(remaining_size / 2)
ValidOf(N, tr) == (N - tr) \div 2

\* line 123: test_size = remaining_size - valid_size
TestOf(N, tr, va) == (N - tr) - va

\* the three sizes for the fraction k / FracDen
TrainSize(N, k) == TrainSizeOf(N, k, FracDen)

ValidSize(N, k) == ValidOf(N, TrainSize(N, k))

TestSize(N, k) == TestOf(N, TrainSize(N, k), ValidSize(N, k))

\* The overlapping variant of random_split: the second and third chunks
\* start one index too early.
RandomSplitOverlap(perm, lens) ==
    << {perm[ix] : ix \in 1 .. lens[1]},
       {perm[ix] : ix \in {x \in lens[1] .. (lens[1] + lens[2]) : x >= 1}},
       {perm[ix] : ix \in {x \in (lens[1] + lens[2]) .. Len(perm) : x >= 1}} >>

\* random_split(np.arange(N), lengths): consecutive chunks of a random
\* permutation of the indices
RandomSplit(perm, lens) ==
    << {perm[ix] : ix \in 1 .. lens[1]},
       {perm[ix] : ix \in (lens[1] + 1) .. (lens[1] + lens[2])},
       {perm[ix] : ix \in (lens[1] + lens[2] + 1) .. (lens[1] + lens[2] + lens[3])} >>

\* the subjects kept after filtering, permuting and truncating
IncludedSubs(ag, a) ==
    LET eligible == FilterAge(ag, UniqueSubs, a.lo, a.hi)
        idx      == NumpyPermutation(a.seed, Len(eligible))
    IN  Truncate(Permuted(eligible, idx), a.max_subj)

\* the generator of a process that has drawn nothing yet
FreshGen == 0

\* one draw from the generator: the state moves on, and with it both the
\* permutation a later randperm would give and the rest of the stream
Advance(g) == (g + Fact(PoolSize) + 1) % (MaxSeed + 1)

RECURSIVE AdvanceBy(_, _)
AdvanceBy(g, d) == IF d = 0 THEN g ELSE AdvanceBy(Advance(g), d - 1)

\* line 97 left out: the generator is as the code before left it
UnseededState(seed, g) == g

\* line 97: torch.manual_seed(seed), whatever the state g was
SeededState(seed, g) == seed

\* the splits as slices of subs itself: subs[:train], subs[train:train+valid],
\* subs[train+valid:]
SplitContiguous(ag, a, g) ==
    LET subs == IncludedSubs(ag, a)
        N    == Len(subs)
        lens == <<TrainSize(N, a.k), ValidSize(N, a.k), TestSize(N, a.k)>>
    IN  << {subs[x] : x \in 1 .. lens[1]},
           {subs[x] : x \in (lens[1] + 1) .. (lens[1] + lens[2])},
           {subs[x] : x \in (lens[1] + lens[2] + 1) .. N} >>

\* lines 118-145 with the generator in state g when random_split draws:
\* samples_df["subs"].isin(subs[index]) for each of the three index subsets
SplitWith(ag, a, g) ==
    LET subs    == IncludedSubs(ag, a)
        N       == Len(subs)
        lens    == <<TrainSize(N, a.k), ValidSize(N, a.k), TestSize(N, a.k)>>
        indexes == RandomSplit(TorchRandperm(g, N), lens)
    IN  [ix \in 1 .. 3 |-> {subs[x] : x \in indexes[ix]}]

\* create_loaders as a function of its inputs
SplitSubjects(ag, a) == SplitWith(ag, a, SeededState(a.seed, FreshGen))

\* the function create_loaders picks for the eager mode
LoadFn(dtype) == IF dtype \in {"temporal", "both"} THEN "load_data" ELSE "load_freq_data"

\* the entry of the returned list for a split that is not included
None == [none |-> TRUE, subjects |-> {}]

\* DataLoader(dataset) over the trials of the subjects of a split
Loader(subjects) == [none |-> FALSE, subjects |-> subjects]

NotCalled == [state |-> "none", list |-> <<>>]

\* the call ended with an exception instead of returning
RaisedLoaders == [state |-> "raised", list |-> <<>>]

\* the values an include flag is drawn from
IncludeFlags == {0, 1, 2}

\* include=(1, 1, 1) and chunkload=True, the defaults of lines 85-87; dtype has
\* none, "temporal" is the default of --feature
DefaultOpts == [include |-> <<1, 1, 1>>, chunkload |-> TRUE, dtype |-> "temporal"]

OptSet ==
    [include : [1 .. 3 -> IncludeFlags], chunkload : BOOLEAN,
     dtype : {"temporal", "both", "bins"}]

\* lines 142, 158, 178, 191 as a truth test: `if include[i]`
IncludedTruthy(inc, ix) == inc[ix] # 0

\* lines 142, 158, 178, 191: `if include[i] == 1 else None`
Included(inc, ix) == inc[ix] = 1

\* lines 164-176, the eager mode: load_fn(df, ...) raises when load_fn is
\* load_freq_data (it takes neither dtype nor printmem) and when the
\* dataframe of the split is empty (np.concatenate of no array, line 363);
\* create_dataset of the chunked mode reads nothing and cannot fail
LoadRaises(o, sp, ix) ==
    ~o.chunkload /\ (LoadFn(o.dtype) # "load_data" \/ sp[ix] = {})

\* lines 138-195: the returned list, in the order of indexes (train, valid,
\* test), or the exception of the first included split whose load fails
LoadersOf(o, sp) ==
    IF \E ix \in 1 .. 3 : Included(o.include, ix) /\ LoadRaises(o, sp, ix)
    THEN RaisedLoaders
    ELSE [state |-> "returned",
          list  |-> [ix \in 1 .. 3 |->
                        IF Included(o.include, ix) THEN Loader(sp[ix]) ELSE None]]

\* lines 149-181: the splits whose dataset was built before the call ended
BuiltOf(o, sp) ==
    {ix \in 1 .. 3 :
        /\ Included(o.include, ix)
        /\ \A y \in 1 .. (ix - 1) : ~(Included(o.include, y) /\ LoadRaises(o, sp, y))}

ArgSet ==
    [seed : 0 .. MaxSeed, k : 0 .. FracDen, max_subj : 0 .. MaxSubj,
     lo : 0 .. MaxAge, hi : 0 .. MaxAge]

\* The ages tables the model draws from: the ages cycle through
\* NoAge, 0, .., MaxAge along the subjects, starting at any point of the cycle.
AgeTable(shift) ==
    [s \in Subjects |-> ((s + shift) % (MaxAge + 2)) - 1]

(***************************************************************************)
(* The data: dataframes, recordings, arrays                                *)
(***************************************************************************)
\* the sex column of trials_df_clean.csv, the label of a subject's trials
Sex(sub) == sub % 2

\* the value a recording holds for a channel type, a sensor and a time point
Signal(d, sub, c, s, t) == (d + sub + c * s + t * (s + d)) % 3

\* np.load(dpath + f"{sub}_ICA_transdef_mfds200.npy"): the recording of a
\* subject, indexed [channel type][sensor][time]; two sensors per channel type
SubjectFile(d, sub, T) ==
    [c \in 1 .. 3 |-> [s \in 1 .. 2 |-> [t \in 1 .. T |-> Signal(d, sub, c, s, t)]]]

\* np.load(f"{sub}_{sex}_{begin}_{end}_ICA_ds200.npy"): the recording cut to
\* the time points begin .. end-1 of the trial
TrialFile(d, row, T) ==
    [c \in 1 .. 3 |-> [s \in 1 .. 2 |->
        SubSeq(SubjectFile(d, row.subs, T)[c][s], row.begin + 1, row.end)]]

\* chan_index of ch_type (0-based in the code, 1-based here)
ChanIndex(ch) ==
    IF ch = "MAG" THEN <<3>> ELSE IF ch = "GRAD" THEN <<1, 2>> ELSE <<1, 2, 3>>

\* a[chan_index]
Pick(a, idx) == [ix \in 1 .. Len(idx) |-> a[idx[ix]]]

\* a[:, :, begin:end]
Slice(a, b, e) ==
    [c \in DOMAIN a |-> [s \in DOMAIN a[c] |-> SubSeq(a[c][s], b + 1, e)]]

\* the value of 0/0
NaN == 2

\* the z-score of x in the population {x, y}: mean (x+y)/2, standard deviation
\* |x-y|/2, hence the sign of x - y, and 0/0 when the two are equal
ZPair(x, y) == IF x = y THEN NaN ELSE IF x > y THEN 1 ELSE 0 - 1

\* zscore(a, axis=1): across the sensors, for every channel type and time point
ZscoreAxis1(a) ==
    [c \in DOMAIN a |-> [s \in 1 .. 2 |->
        [t \in DOMAIN a[c][1] |-> ZPair(a[c][s][t], a[c][3 - s][t])]]]

RECURSIVE SumSq(_)
SumSq(seq) == IF seq = <<>> THEN 0 ELSE Head(seq) * Head(seq) + SumSq(Tail(seq))

\* welch(seq, fs=200)[1]: NBins power values computed from the whole of seq;
\* the model keeps which data they come from, not their spectral meaning
PsdOf(seq) == [k \in 1 .. NBins |-> SumSq(seq) + k]

\* welch(a, fs=200)[1]: along the last axis
Welch(a) == [c \in DOMAIN a |-> [s \in DOMAIN a[c] |-> PsdOf(a[c][s])]]

RECURSIVE Concat(_)
Concat(ss) == IF ss = <<>> THEN <<>> ELSE Head(ss) \o Concat(Tail(ss))

\* a.ravel(): row-major
Ravel(a) == Concat([c \in DOMAIN a |-> Concat(a[c])])

\* a 3-dimensional array as a sample: its shape and its values
Array3(a) == [shape |-> <<Len(a), Len(a[1]), Len(a[1][1])>>, flat |-> Ravel(a)]

\* np.append(a, b) without axis: both arguments are flattened
NpAppend(a, b) ==
    [shape |-> <<Len(Ravel(a) \o Ravel(b))>>, flat |-> Ravel(a) \o Ravel(b)]

\* np.concatenate((a, b), axis=-1)
ConcatLastAxis(a, b) == [c \in DOMAIN a |-> [s \in DOMAIN a[c] |-> a[c][s] \o b[c][s]]]

\* the rows of a split's dataframe before .sample(frac=1): subject by subject,
\* trial by trial
BaseRows(n, ntr) ==
    [r \in 1 .. (n * ntr) |->
        [subs  |-> ((r - 1) \div ntr) + 1,
         sex   |-> Sex(((r - 1) \div ntr) + 1),
         begin |-> ((r - 1) % ntr) * SegLen,
         end   |-> (((r - 1) % ntr) + 1) * SegLen]]

\* .sample(frac=1, random_state=seed): the rows in a seeded random order
Shuffled(k, rows) == PermFrom(k % Fact(Len(rows)), rows)

LoadInputs ==
    { [frame      |-> Shuffled(k, BaseRows(n, ntr)),
       ntr        |-> ntr,
       unreadable |-> u,
       dtype      |-> dt,
       ch_type    |-> ch,
       data       |-> d] :
        n \in 1 .. MaxLoadSubj, ntr \in 1 .. MaxTrials, k \in 0 .. MaxShuffle,
        u \in SUBSET (1 .. MaxLoadSubj), dt \in {"temporal", "both", "bins"},
        ch \in {"MAG", "GRAD", "ALL"}, d \in 0 .. MaxData }

NoLoadIn == CHOOSE in \in LoadInputs : TRUE

NotRun == [ran |-> FALSE, raised |-> FALSE, rows |-> <<>>, X |-> <<>>, y |-> <<>>]

\* the call ended with an exception
Raised == [ran |-> TRUE, raised |-> TRUE, rows |-> <<>>, X |-> <<>>, y |-> <<>>]

LoadOff == loadIn = NoLoadIn /\ eager = NotRun /\ chunked = NotRun

(***************************************************************************)
(* load_data (the eager mode)                                              *)
(***************************************************************************)
\* subs_df: the subjects of the dataframe, in order of first appearance
RECURSIVE SubsOf(_)
SubsOf(frame) ==
    IF frame = <<>> THEN <<>>
    ELSE <<Head(frame).subs>>
         \o SubsOf(SelectSeq(Tail(frame), LAMBDA r : r.subs # Head(frame).subs))

\* dataframe.loc[dataframe["subs"] == sub]
RowsOf(frame, sub) == SelectSeq(frame, LAMBDA r : r.subs = sub)

\* lines 339-357: one trial of a readable subject
EagerSample(in, row) ==
    LET sub_data == Pick(SubjectFile(in.data, row.subs, in.ntr * SegLen),
                         ChanIndex(in.ch_type))
        z        == ZscoreAxis1(Slice(sub_data, row.begin, row.end))
    IN  IF in.dtype = "both" THEN NpAppend(z, Welch(sub_data)) ELSE Array3(z)

\* lines 327-361: X[i] and the labels of subject i; X[i] is left as np.empty
\* made it (None) when the file of the subject cannot be read
SubjectBlock(in, sub) ==
    IF sub \in in.unreadable
    THEN [hole |-> TRUE, rows |-> <<>>, X |-> <<>>, y |-> <<>>]
    ELSE LET rows == RowsOf(in.frame, sub)
         IN  [hole |-> FALSE,
              rows |-> rows,
              X    |-> [ix \in 1 .. Len(rows) |-> EagerSample(in, rows[ix])],
              y    |-> [ix \in 1 .. Len(rows) |-> rows[1].sex]]

\* lines 167-175 of create_loaders and lines 313-363: load_freq_data does not
\* take the keywords dtype and printmem (TypeError); np.concatenate raises
\* on an X that holds a None, and on an empty X (ValueError)
LoadDataResult(in) ==
    LET subs   == SubsOf(in.frame)
        blocks == [ix \in 1 .. Len(subs) |-> SubjectBlock(in, subs[ix])]
    IN  IF LoadFn(in.dtype) # "load_data" THEN Raised
        ELSE IF subs = <<>> \/ \E ix \in 1 .. Len(subs) : blocks[ix].hole THEN Raised
        ELSE [ran    |-> TRUE,
              raised |-> FALSE,
              rows   |-> Concat([ix \in 1 .. Len(subs) |-> blocks[ix].rows]),
              X      |-> Concat([ix \in 1 .. Len(subs) |-> blocks[ix].X]),
              y      |-> Concat([ix \in 1 .. Len(subs) |-> blocks[ix].y])]

(***************************************************************************)
(* chunkedMegDataset (the chunked mode)                                    *)
(***************************************************************************)
\* lines 216-252: the trial of row idx, from the file of the trial
GetItem(in, row) ==
    LET signal == Pick(TrialFile(in.data, row, in.ntr * SegLen), ChanIndex(in.ch_type))
    IN  IF in.dtype = "both"
        THEN Array3(ConcatLastAxis(ZscoreAxis1(signal), Welch(signal)))
        ELSE Array3(ZscoreAxis1(signal))

\* every index of the dataset in turn; with a dtype that is none of temporal,
\* freq... and both, trial is unbound at line 250 (UnboundLocalError)
ChunkedResult(in) ==
    IF in.dtype \notin {"temporal", "both"} THEN Raised
    ELSE [ran    |-> TRUE,
          raised |-> FALSE,
          rows   |-> in.frame,
          X      |-> [ix \in 1 .. Len(in.frame) |-> GetItem(in, in.frame[ix])],
          y      |-> [ix \in 1 .. Len(in.frame) |-> in.frame[ix].sex]]

(***************************************************************************)
(* Values of the training loop                                             *)
(***************************************************************************)
Losses == 0 .. MaxLoss

\* float("inf"): above every loss
Inf == MaxLoss + 1

\* an unbound local, a field that is not there
Undef == 0 - 1

\* exit status of a process that has not ended
NoExit == 0 - 1

NoAnswer == "none"

\* the value evaluate() returns on the train split; train never reads it
TrainLossToken == "train_loss"

Modes == {"overwrite", "continue", "empty_run", "evaluate"}

NoCkpt == [exists |-> FALSE, epoch |-> 0, state |-> 0]

\* a checkpoint file that is there and that torch.load cannot read
Unparsable == [exists |-> TRUE, epoch |-> Undef, state |-> Undef]

NoLedger ==
    [exists |-> FALSE, loss_score |-> Inf, best_epoch |-> Undef, n_epochs |-> 0,
     has_patience |-> FALSE, patience |-> 0, current_patience |-> 0,
     valid_loss |-> <<>>, train_loss |-> <<>>]

(***************************************************************************)
(* Decisions of train, one operator each                                   *)
(***************************************************************************)
\* lines 36 and 75 with the failure swallowed: the call goes on with whatever it got
NeverRaises(ck) == FALSE

\* lines 33-40 and 75: torch.load raises on a file it cannot parse, and nothing
\* in train or __main__ catches it
LoadCheckpointRaises(ck) == ck.exists /\ ck = Unparsable

\* line 74 without the test that the file exists
LoadsWhenAsked(load, ck) == load

\* line 74: load_model and os.path.exists(model_filepath)
TakesLoadBranch(load, ck) == load /\ ck.exists

\* line 75 without line 86: the epoch counter stays the checkpoint's
ResumeEpochFromCkpt(ck, led) == ck.epoch

\* lines 75 and 86: epoch is read from the checkpoint, then overwritten by
\* the ledger's n_epochs
ResumeEpoch(ck, led) == led.n_epochs

\* lines 87-96 without the branch of continue mode: j is never zeroed
ResumePatienceKeep(m, led) ==
    IF led.has_patience THEN led.current_patience ELSE 0

\* lines 87-96, j: zeroed in continue mode, read from the ledger otherwise,
\* zeroed when the ledger lacks the field (the bare except)
ResumePatience(m, led) ==
    IF m = "continue" THEN 0
    ELSE IF led.has_patience THEN led.current_patience ELSE 0

\* lines 87-96 without the try: the field is read as if it were always there
LoadedPatienceNoDefault(m, led, pat) ==
    IF m = "continue" THEN pat ELSE led.patience

\* lines 87-96, lpatience
LoadedPatience(m, led, pat) ==
    IF m = "continue" THEN pat
    ELSE IF led.has_patience THEN led.patience ELSE pat

\* line 98 with the test dropped: the prompt is never shown
NoMismatch(lp, pat) == FALSE

\* line 98: lpatience != patience
PatienceMismatch(lp, pat) == lp # pat

\* line 125 as `while True`: the loop has no exit
LoopNeverStops(jj, pp) == TRUE

\* line 125 with <= for <: one epoch too many
LoopStopsLate(jj, pp) == jj <= pp

\* line 125: while j < p
LoopContinues(jj, pp) == jj < pp

\* line 156 with > for >=: the timed run takes one batch more
LastTimedBatchLate(ii, nb) == ii > TimingLastIndex \/ ii = nb - 1

\* line 156: condition = i >= 999 or i == n_batches - 1
LastTimedBatch(ii, nb) == ii >= TimingLastIndex \/ ii = nb - 1

\* line 130 as a loop that is left after its first batch
PassEndsEarly(ii, nb) == ii = 0

\* line 130: for i, batch in enumerate(trainloader) ends after batch
\* n_batches - 1
PassEnds(ii, nb) == ii = nb - 1

\* line 167 with <= for <: an equal loss counts as an improvement
ImprovedOrEqual(vl, best) == vl <= best

\* line 167: valid_loss < best_vloss
Improved(vl, best) == vl < best

\* lines 205-226 with the flag put back at the end
ModeRestored(m) == m

\* lines 205-226, net.training after evaluate: net.eval() at line 207, and
\* nothing sets the flag again before the return
ModeAfterEvaluate(m) == "eval"

\* lines 174-178: the checkpoint dictionary
CheckpointOf(ep, state) == [exists |-> TRUE, epoch |-> ep + 1, state |-> state]

\* lines 173-179 moved out of the improving branch: saved at every epoch
CkptEveryEpoch(sv, imp, ck, ep, state) ==
    IF sv THEN CheckpointOf(ep, state) ELSE ck

\* lines 173-179: the checkpoint file after the improvement test
CkptAfterUpdate(sv, imp, ck, ep, state) ==
    IF sv /\ imp THEN CheckpointOf(ep, state) ELSE ck

\* lines 188-199: the results dictionary
LedgerOf(bvl, be, ep, pat, jj, vls, tls) ==
    [exists |-> TRUE, loss_score |-> bvl, best_epoch |-> be, n_epochs |-> ep,
     has_patience |-> TRUE, patience |-> pat, current_patience |-> jj,
     valid_loss |-> vls, train_loss |-> tls]

(***************************************************************************)
(* Initial state: no files under save_path, no process running            *)
(***************************************************************************)
ProcInit ==
    /\ epoch = 0 /\ j = 0 /\ best_vloss = Inf /\ best_epoch = Undef
    /\ valid_losses = <<>> /\ train_losses = <<>> /\ valid_loss = Inf
    /\ lpatience = Undef /\ answer = NoAnswer /\ i = 0
    /\ net = 0 /\ netMode = "train"
    /\ exitCode = NoExit
    /\ best_state = Undef /\ start_epoch = 0 /\ nwrites = 0
    /\ resumed = FALSE

Init ==
    /\ ages = AgeTable(0) /\ args = CHOOSE a \in ArgSet : TRUE
    /\ splitPc = "off" /\ splits = <<{}, {}, {}>>
    /\ torch_rng = FreshGen /\ calls = <<>>
    /\ opts = DefaultOpts /\ loaders = NotCalled /\ built = {}
    /\ ckpt = NoCkpt /\ ledger = NoLedger
    /\ pc = "idle"
    /\ entry = "main" /\ mode = "overwrite"
    /\ save_model = FALSE /\ load_model = FALSE /\ timing = FALSE
    /\ patience = 1 /\ p = 1 /\ n_batches \in 1 .. MaxBatches
    /\ ProcInit /\ LoadOff
    /\ nsteps = 0 /\ runs = 0 /\ steps0 = 0 /\ had_ckpt = FALSE

InitSplit ==
    /\ ages \in {AgeTable(shift) : shift \in 0 .. (MaxAge + 1)}
    /\ args \in ArgSet
    /\ splitPc = "call"
    /\ splits = <<{}, {}, {}>>
    /\ torch_rng = FreshGen /\ calls = <<>>
    /\ opts = DefaultOpts /\ loaders = NotCalled /\ built = {}
    /\ ckpt = NoCkpt /\ ledger = NoLedger
    /\ pc = "off"
    /\ entry = "main" /\ mode = "overwrite"
    /\ save_model = FALSE /\ load_model = FALSE /\ timing = FALSE
    /\ patience = 1 /\ p = 1 /\ n_batches = 1
    /\ ProcInit /\ LoadOff
    /\ nsteps = 0 /\ runs = 0 /\ steps0 = 0 /\ had_ckpt = FALSE

(***************************************************************************)
(* create_loaders as an action                                             *)
(***************************************************************************)
CreateLoaders ==
    /\ splitPc = "call"
    /\ splits' = SplitWith(ages, args, SeededState(args.seed, torch_rng))
    /\ torch_rng' = Advance(SeededState(args.seed, torch_rng))
    /\ calls' = Append(calls, [rng |-> torch_rng, ages |-> ages, args |-> args,
                               splits |-> splits'])
    /\ loaders' = LoadersOf(opts, splits')
    /\ built' = BuiltOf(opts, splits')
    /\ splitPc' = "done"
    /\ UNCHANGED <<ages, args, opts>>
    /\ UNCHANGED <<diskVars, pc, callVars, trainVars, netVars, exitCode, histVars, loadVars>>

(***************************************************************************)
(* Starting a process.  A process starts when none runs: at first, or      *)
(* after the previous one ended.  The files stay; the network is           *)
(* constructed anew.                                                       *)
(***************************************************************************)
CanStart == pc \in {"idle", "exited"} /\ runs < MaxRuns

StartProcess(e, m, sv, ld, tm, pat, pp, first) ==
    /\ CanStart
    /\ entry' = e /\ mode' = m
    /\ save_model' = sv /\ load_model' = ld /\ timing' = tm
    /\ patience' = pat /\ p' = pp
    /\ epoch' = 0 /\ j' = 0 /\ best_vloss' = Inf /\ best_epoch' = Undef
    /\ valid_losses' = <<>> /\ train_losses' = <<>> /\ valid_loss' = Inf
    /\ lpatience' = Undef /\ answer' = NoAnswer /\ i' = 0
    /\ net' = 0 /\ netMode' = "train"
    /\ exitCode' = NoExit
    /\ best_state' = Undef /\ start_epoch' = 0 /\ nwrites' = 0
    /\ resumed' = FALSE
    /\ runs' = runs + 1 /\ steps0' = nsteps /\ had_ckpt' = ckpt.exists
    /\ pc' = first
    /\ UNCHANGED <<n_batches, nsteps, diskVars, splitVars, loadVars>>

\* cnn.py 585-593 with load = True in every branch
LoadAlways(m) == TRUE

\* cnn.py 585-593 with save = True in every branch
SaveAlways(m) == TRUE

\* cnn.py 585-593: save and load from the mode
SaveOfMode(m) == m \in {"overwrite", "continue", "evaluate"}

LoadOfMode(m) == m \in {"continue", "evaluate"}

\* cnn.py 599 without the test: train is called in every mode
TrainAlways(m) == "train"

\* cnn.py 599: if mode != "evaluate": train(...)
FirstOfMode(m) == IF m # "evaluate" THEN "train" ELSE "after_train"

\* __main__ without --times, up to the call of train (skipped in evaluate
\* mode), with --patience among pats
StartMainWith(pats) ==
    \E m \in Modes, pat \in pats :
        StartProcess("main", m, SaveOfMode(m), LoadOfMode(m), FALSE, pat, pat,
                     FirstOfMode(m))

StartMain == StartMainWith(1 .. MaxP)

\* __main__ with --times: train(net, tl, vl, "", lr=learning_rate, timing=True);
\* a call that neither loads nor saves never reads the global patience, left
\* here at the parser's default
StartTimes ==
    StartProcess("times", "overwrite", FALSE, FALSE, TRUE, DefaultPatience, DefaultP, "train")

\* train called with load_model=True and mode left at its default ("overwrite"),
\* the one combination of its arguments that __main__ never passes
StartCall ==
    \E sv \in BOOLEAN, pat \in 1 .. MaxP :
        StartProcess("call", "overwrite", sv, TRUE, FALSE, pat, pat, "train")

(***************************************************************************)
(* train, lines 67-122: loading                                           *)
(***************************************************************************)
\* lines 117-122, then the loop is entered
EnterLoop(ep) ==
    /\ train_losses' = <<>> /\ valid_losses' = <<>>
    /\ best_vloss' = Inf
    /\ netMode' = "train"
    /\ start_epoch' = ep
    /\ pc' = "loop"

TrainEntry ==
    /\ pc = "train"
    /\ IF TakesLoadBranch(load_model, ckpt) /\ LoadCheckpointRaises(ckpt)
       THEN \* line 75 raises before anything is loaded: the process dies
            \* with a traceback
            /\ pc' = "exited" /\ exitCode' = 1
            /\ resumed' = TRUE
            /\ UNCHANGED <<net, epoch, j, best_vloss, best_epoch, valid_losses,
                           train_losses, lpatience, netMode, start_epoch>>
       ELSE IF TakesLoadBranch(load_model, ckpt) /\ ~ledger.exists
       THEN \* loadmat raises: the process dies with a traceback
            /\ net' = ckpt.state /\ epoch' = ckpt.epoch
            /\ pc' = "exited" /\ exitCode' = 1
            /\ resumed' = TRUE
            /\ UNCHANGED <<j, best_vloss, best_epoch, valid_losses, train_losses,
                           lpatience, netMode, start_epoch>>
       ELSE IF TakesLoadBranch(load_model, ckpt)
       THEN /\ net' = ckpt.state
            /\ epoch' = ResumeEpoch(ckpt, ledger)
            /\ best_epoch' = ledger.best_epoch
            /\ j' = ResumePatience(mode, ledger)
            /\ lpatience' = LoadedPatience(mode, ledger, patience)
            /\ resumed' = TRUE
            /\ exitCode' = exitCode
            /\ IF PatienceMismatch(LoadedPatience(mode, ledger, patience), patience)
               THEN /\ pc' = "prompt"
                    /\ best_vloss' = ledger.loss_score
                    /\ valid_losses' = ledger.valid_loss
                    /\ train_losses' = ledger.train_loss
                    /\ UNCHANGED <<netMode, start_epoch>>
               ELSE EnterLoop(epoch')
       ELSE /\ j' = 0
            /\ epoch' = 0
            /\ EnterLoop(0)
            /\ UNCHANGED <<net, best_epoch, lpatience, resumed, exitCode>>
    /\ UNCHANGED <<valid_loss, answer, i, best_state, nsteps, runs, nwrites, steps0, had_ckpt>>
    /\ UNCHANGED <<diskVars, callVars, splitVars, loadVars>>

\* lines 102-106: the prompt is repeated until the answer is y or n
Answer ==
    /\ pc = "prompt"
    /\ \E a \in {"y", "n"} :
        /\ answer' = a
        /\ IF a = "n"
           THEN /\ pc' = "exited" /\ exitCode' = 0
                /\ UNCHANGED <<train_losses, valid_losses, best_vloss, netMode, start_epoch>>
           ELSE /\ EnterLoop(epoch)
                /\ exitCode' = exitCode
    /\ UNCHANGED <<epoch, j, best_epoch, valid_loss, lpatience, i, net>>
    /\ UNCHANGED <<nsteps, runs, best_state, nwrites, steps0, had_ckpt, resumed>>
    /\ UNCHANGED <<diskVars, callVars, splitVars, loadVars>>

(***************************************************************************)
(* train, lines 125-202: the epoch loop                                    *)
(***************************************************************************)
\* line 125-127: the loop test; the call returns net when it fails
LoopTest ==
    /\ pc = "loop"
    /\ IF LoopContinues(j, p)
       THEN /\ epoch' = epoch + 1
            /\ i' = 0
            /\ pc' = "batch"
       ELSE /\ pc' = "returned"
            /\ UNCHANGED <<epoch, i>>
    /\ UNCHANGED <<j, best_vloss, best_epoch, valid_losses, train_losses, valid_loss,
                   lpatience, answer>>
    /\ UNCHANGED <<diskVars, callVars, netVars, exitCode, histVars, splitVars, loadVars>>

\* lines 130-158: one batch, one optimizer step; a timing call returns
\* (tpb, et) after its last timed batch
TrainBatchWithin(cap) ==
    /\ pc = "batch"
    /\ nsteps < cap
    /\ nsteps' = nsteps + 1
    /\ net' = nsteps'
    /\ netMode' = "train"
    /\ IF timing /\ LastTimedBatch(i, n_batches)
       THEN pc' = "returned" /\ i' = i
       ELSE IF PassEnds(i, n_batches)
            THEN pc' = "eval_train" /\ i' = i
            ELSE pc' = "batch" /\ i' = i + 1
    /\ UNCHANGED <<epoch, j, best_vloss, best_epoch, valid_losses, train_losses,
                   valid_loss, lpatience, answer>>
    /\ UNCHANGED <<runs, best_state, start_epoch, nwrites, steps0, had_ckpt, resumed>>
    /\ UNCHANGED <<diskVars, callVars, exitCode, splitVars, loadVars>>

TrainBatch == TrainBatchWithin(MaxSteps)

\* line 160 and lines 205-226: evaluate on the train loader
EvaluateTrain ==
    /\ pc = "eval_train"
    /\ netMode' = ModeAfterEvaluate(netMode)
    /\ pc' = "eval_valid"
    /\ UNCHANGED <<net, diskVars, callVars, trainVars, exitCode, histVars, splitVars, loadVars>>

\* line 161 and lines 205-226: evaluate on the valid loader
EvaluateValid ==
    /\ pc = "eval_valid"
    /\ \E v \in Losses : valid_loss' = v
    /\ netMode' = ModeAfterEvaluate(netMode)
    /\ pc' = "update"
    /\ UNCHANGED <<epoch, j, best_vloss, best_epoch, valid_losses, train_losses,
                   lpatience, answer, i>>
    /\ UNCHANGED <<net, diskVars, callVars, exitCode, histVars, splitVars, loadVars>>

\* lines 163-182: the histories, the improvement test, the checkpoint.
\* best_net = net binds a second name to the same object, so best_net has no
\* state of its own.  net.save_model appends the architecture to <name>.txt,
\* a file nothing reads.
Update ==
    /\ pc = "update"
    /\ train_losses' = Append(train_losses, TrainLossToken)
    /\ valid_losses' = Append(valid_losses, valid_loss)
    /\ IF Improved(valid_loss, best_vloss)
       THEN /\ best_vloss' = valid_loss
            /\ best_epoch' = epoch
            /\ j' = 0
            /\ best_state' = net
       ELSE /\ j' = j + 1
            /\ UNCHANGED <<best_vloss, best_epoch, best_state>>
    /\ ckpt' = CkptAfterUpdate(save_model, Improved(valid_loss, best_vloss), ckpt, epoch, net)
    /\ nwrites' = IF save_model /\ Improved(valid_loss, best_vloss)
                  THEN nwrites + 1 ELSE nwrites
    /\ pc' = "save_ledger"
    /\ UNCHANGED <<epoch, valid_loss, lpatience, answer, i>>
    /\ UNCHANGED <<nsteps, runs, start_epoch, steps0, had_ckpt, resumed>>
    /\ UNCHANGED <<ledger, callVars, netVars, exitCode, splitVars, loadVars>>

\* lines 184-200: the ledger, written at the end of every epoch of a saving call
SaveLedger ==
    /\ pc = "save_ledger"
    /\ IF save_model
       THEN /\ ledger' = LedgerOf(best_vloss, best_epoch, epoch, patience, j,
                                  valid_losses, train_losses)
            /\ nwrites' = nwrites + 1
       ELSE UNCHANGED <<ledger, nwrites>>
    /\ pc' = "loop"
    /\ UNCHANGED <<nsteps, runs, best_state, start_epoch, steps0, had_ckpt, resumed>>
    /\ UNCHANGED <<ckpt, callVars, trainVars, netVars, exitCode, splitVars, loadVars>>

(***************************************************************************)
(* After train                                                             *)
(***************************************************************************)
\* cnn.py 612-629: load the saved checkpoint and report the ledger, or warn
\* that there is none; either way the script ends with exit()
MainFinish ==
    /\ entry = "main"
    /\ pc \in {"returned", "after_train"}
    /\ net' = IF ckpt.exists /\ ~LoadCheckpointRaises(ckpt) THEN ckpt.state ELSE net
    /\ exitCode' = IF ckpt.exists /\ (LoadCheckpointRaises(ckpt) \/ ~ledger.exists)
                  THEN 1 ELSE 0
    /\ pc' = "exited"
    /\ UNCHANGED <<netMode, diskVars, callVars, trainVars, histVars, splitVars, loadVars>>

\* cnn.py 546-559: the next (workers, batch size) pair, same network
TimesNext ==
    /\ entry = "times"
    /\ pc = "returned"
    /\ pc' = "train"
    /\ UNCHANGED <<diskVars, callVars, trainVars, netVars, exitCode, histVars, splitVars, loadVars>>

\* the script ends after the last pair; the caller of train ends
ProcessEnds ==
    /\ entry \in {"times", "call"}
    /\ pc = "returned"
    /\ pc' = "exited"
    /\ exitCode' = 0
    /\ UNCHANGED <<diskVars, callVars, trainVars, netVars, histVars, splitVars, loadVars>>

(***************************************************************************)
(* The files between two processes                                         *)
(***************************************************************************)
\* the checkpoint file is damaged while no process runs (a write cut short,
\* a disk fault): what torch.load of line 36 then finds; damage that no later
\* process can see is left out
CorruptCheckpoint ==
    /\ CanStart
    /\ ckpt.exists /\ ckpt # Unparsable
    /\ ckpt' = Unparsable
    /\ UNCHANGED <<ledger, pc, callVars, trainVars, netVars, exitCode, histVars, splitVars, loadVars>>

\* a ledger as the version of train before the patience fields wrote it:
\* the keys patience and current_patience of lines 197-198 are not there
OldSchema(led) ==
    [led EXCEPT !.has_patience = FALSE, !.patience = 0, !.current_patience = 0]

\* the run that left the files was made with that older version
LegacyLedger ==
    /\ CanStart
    /\ ledger.exists /\ ledger.has_patience
    /\ ledger' = OldSchema(ledger)
    /\ UNCHANGED <<ckpt, pc, callVars, trainVars, netVars, exitCode, histVars, splitVars, loadVars>>

vars == <<splitVars, loadVars, diskVars, pc, callVars, trainVars, netVars, exitCode, histVars>>

Next ==
    \/ StartMain
    \/ StartTimes
    \/ StartCall
    \/ TrainEntry
    \/ Answer
    \/ LoopTest
    \/ TrainBatch
    \/ EvaluateTrain
    \/ EvaluateValid
    \/ Update
    \/ SaveLedger
    \/ MainFinish
    \/ TimesNext
    \/ ProcessEnds

Spec == Init /\ [][Next]_vars

(***************************************************************************)
(* The same processes on files that something else than this version of    *)
(* train may have left: a damaged checkpoint, a ledger of the older        *)
(* schema.  Two processes are left to start: the one that leaves the files *)
(* and the one that finds them; the earlier ones left nothing.             *)
(***************************************************************************)
InitDisk ==
    /\ ages = AgeTable(0) /\ args = CHOOSE a \in ArgSet : TRUE
    /\ splitPc = "off" /\ splits = <<{}, {}, {}>>
    /\ torch_rng = FreshGen /\ calls = <<>>
    /\ opts = DefaultOpts /\ loaders = NotCalled /\ built = {}
    /\ ckpt = NoCkpt /\ ledger = NoLedger
    /\ pc = "idle"
    /\ entry = "main" /\ mode = "overwrite"
    /\ save_model = FALSE /\ load_model = FALSE /\ timing = FALSE
    /\ patience = 1 /\ p = 1 /\ n_batches \in 1..MaxBatches
    /\ ProcInit /\ LoadOff
    /\ nsteps = 0 /\ runs = MaxRuns - 2 /\ steps0 = 0 /\ had_ckpt = FALSE

NextDisk ==
    \/ Next
    \/ CorruptCheckpoint
    \/ LegacyLedger

SpecDisk == InitDisk /\ [][NextDisk]_vars

(***************************************************************************)
(* The epoch loop left to run as long as it wants.  The losses of a call   *)
(* are drawn from Losses, so a call improves at most MaxLoss + 1 times,    *)
(* each improvement is followed by fewer than p epochs without one, and    *)
(* the last by p of them: LiveSteps is above the steps any call can take,  *)
(* and the guard of LiveBatch never holds a call back.  A process executes *)
(* its statements one after the other, none waits for anything but the     *)
(* answer to the prompt: weak fairness on every step of train.  One        *)
(* process, one batch per epoch, a patience of 1 .. LivePatience.          *)
(***************************************************************************)
LivePatience == MaxP - 1

LiveSteps == (MaxLoss + 2) * LivePatience

InitLive ==
    /\ ages = AgeTable(0) /\ args = CHOOSE a \in ArgSet : TRUE
    /\ splitPc = "off" /\ splits = <<{}, {}, {}>>
    /\ torch_rng = FreshGen /\ calls = <<>>
    /\ opts = DefaultOpts /\ loaders = NotCalled /\ built = {}
    /\ ckpt = NoCkpt /\ ledger = NoLedger
    /\ pc = "idle"
    /\ entry = "main" /\ mode = "overwrite"
    /\ save_model = FALSE /\ load_model = FALSE /\ timing = FALSE
    /\ patience = 1 /\ p = 1 /\ n_batches = 1
    /\ ProcInit /\ LoadOff
    /\ nsteps = 0 /\ runs = MaxRuns - 1 /\ steps0 = 0 /\ had_ckpt = FALSE

LiveBatch == TrainBatchWithin(LiveSteps)

TrainStep ==
    \/ TrainEntry
    \/ LoopTest
    \/ LiveBatch
    \/ EvaluateTrain
    \/ EvaluateValid
    \/ Update
    \/ SaveLedger

StartLive == StartMainWith(1 .. LivePatience)

NextLive ==
    \/ StartLive
    \/ TrainStep
    \/ MainFinish

SpecLive == InitLive /\ [][NextLive]_vars /\ WF_vars(TrainStep)

(***************************************************************************)
(* The --times branch on loaders long enough for the cap of line 156 to    *)
(* matter: len(trainloader) is around TimingLastIndex + 1                  *)
(***************************************************************************)
TimedBatchCounts == TimingLastIndex .. (TimingLastIndex + MaxBatches)

\* optimizer steps taken over all processes of the timing runs
MaxTimedSteps == (TimingLastIndex + 1) * MaxRuns

InitTiming ==
    /\ ages = AgeTable(0) /\ args = CHOOSE a \in ArgSet : TRUE
    /\ splitPc = "off" /\ splits = <<{}, {}, {}>>
    /\ torch_rng = FreshGen /\ calls = <<>>
    /\ opts = DefaultOpts /\ loaders = NotCalled /\ built = {}
    /\ ckpt = NoCkpt /\ ledger = NoLedger
    /\ pc = "idle"
    /\ entry = "times" /\ mode = "overwrite"
    /\ save_model = FALSE /\ load_model = FALSE /\ timing = TRUE
    /\ patience = DefaultPatience /\ p = DefaultP
    /\ n_batches \in TimedBatchCounts
    /\ ProcInit /\ LoadOff
    /\ nsteps = 0 /\ runs = 0 /\ steps0 = 0 /\ had_ckpt = FALSE

TimedBatch == TrainBatchWithin(MaxTimedSteps)

NextTiming ==
    \/ StartTimes
    \/ TrainEntry
    \/ LoopTest
    \/ TimedBatch
    \/ TimesNext
    \/ ProcessEnds

SpecTiming == InitTiming /\ [][NextTiming]_vars

(***************************************************************************)
(* The two loading modes on one dataframe                                  *)
(***************************************************************************)
InitLoad ==
    /\ ages = AgeTable(0) /\ args = CHOOSE a \in ArgSet : TRUE
    /\ splitPc = "off" /\ splits = <<{}, {}, {}>>
    /\ torch_rng = FreshGen /\ calls = <<>>
    /\ opts = DefaultOpts /\ loaders = NotCalled /\ built = {}
    /\ loadIn \in {in \in LoadInputs : in.unreadable \subseteq Range(SubsOf(in.frame))}
    /\ eager = NotRun /\ chunked = NotRun
    /\ ckpt = NoCkpt /\ ledger = NoLedger
    /\ pc = "off"
    /\ entry = "main" /\ mode = "overwrite"
    /\ save_model = FALSE /\ load_model = FALSE /\ timing = FALSE
    /\ patience = 1 /\ p = 1 /\ n_batches = 1
    /\ ProcInit
    /\ nsteps = 0 /\ runs = 0 /\ steps0 = 0 /\ had_ckpt = FALSE

\* create_loaders with chunkload=False: TensorDataset(*load_fn(df, ...))
LoadData ==
    /\ ~eager.ran
    /\ eager' = LoadDataResult(loadIn)
    /\ UNCHANGED <<loadIn, chunked>>
    /\ UNCHANGED <<splitVars, diskVars, pc, callVars, trainVars, netVars, exitCode, histVars>>

\* create_loaders with chunkload=True, and a DataLoader going through the dataset
GetItems ==
    /\ ~chunked.ran
    /\ chunked' = ChunkedResult(loadIn)
    /\ UNCHANGED <<loadIn, eager>>
    /\ UNCHANGED <<splitVars, diskVars, pc, callVars, trainVars, netVars, exitCode, histVars>>

NextLoad == LoadData \/ GetItems

SpecLoad == InitLoad /\ [][NextLoad]_vars

NextSplit == CreateLoaders

(***************************************************************************)
(* create_loaders called twice (the loop of --times, a script run again,   *)
(* a resumed run), other code drawing from the generator in between        *)
(***************************************************************************)
InitResplit ==
    /\ ages = AgeTable(0)
    /\ args \in {a \in ArgSet : a.max_subj = MaxSubj /\ a.lo = 0}
    /\ splitPc = "call"
    /\ splits = <<{}, {}, {}>>
    /\ torch_rng = FreshGen /\ calls = <<>>
    /\ opts = DefaultOpts /\ loaders = NotCalled /\ built = {}
    /\ ckpt = NoCkpt /\ ledger = NoLedger
    /\ pc = "off"
    /\ entry = "main" /\ mode = "overwrite"
    /\ save_model = FALSE /\ load_model = FALSE /\ timing = FALSE
    /\ patience = 1 /\ p = 1 /\ n_batches = 1
    /\ ProcInit /\ LoadOff
    /\ nsteps = 0 /\ runs = 0 /\ steps0 = 0 /\ had_ckpt = FALSE

\* what happens between two calls with the same seed, fraction and max_subj on
\* the same filtered pool: the network is built, batches are drawn, dropout
\* is applied (d draws from the generator), or a new process starts (a fresh
\* generator); the ages table and the age range may be others that keep the
\* same subjects
CallAgain ==
    /\ splitPc = "done"
    /\ Len(calls) < 2
    /\ splitPc' = "call"
    /\ \E d \in 0 .. MaxDraws, fresh \in BOOLEAN :
          torch_rng' = IF fresh THEN FreshGen ELSE AdvanceBy(torch_rng, d)
    /\ \E shift \in 0 .. (MaxAge + 1), lo \in 0 .. MaxAge, hi \in 0 .. MaxAge :
          /\ FilterAge(AgeTable(shift), UniqueSubs, lo, hi)
                = FilterAge(ages, UniqueSubs, args.lo, args.hi)
          /\ ages' = AgeTable(shift)
          /\ args' = [args EXCEPT !.lo = lo, !.hi = hi]
    /\ UNCHANGED <<splits, calls, opts, loaders, built>>
    /\ UNCHANGED <<diskVars, pc, callVars, trainVars, netVars, exitCode, histVars, loadVars>>

NextResplit == CreateLoaders \/ CallAgain

(***************************************************************************)
(* create_loaders with every value of include, both loading modes and the  *)
(* data types, on the whole age range                                      *)
(***************************************************************************)
InitInclude ==
    /\ ages = AgeTable(0)
    /\ args \in {a \in ArgSet : a.max_subj = MaxSubj /\ a.lo = 0 /\ a.hi = MaxAge}
    /\ splitPc = "call"
    /\ splits = <<{}, {}, {}>>
    /\ torch_rng = FreshGen /\ calls = <<>>
    /\ opts \in OptSet /\ loaders = NotCalled /\ built = {}
    /\ ckpt = NoCkpt /\ ledger = NoLedger
    /\ pc = "off"
    /\ entry = "main" /\ mode = "overwrite"
    /\ save_model = FALSE /\ load_model = FALSE /\ timing = FALSE
    /\ patience = 1 /\ p = 1 /\ n_batches = 1
    /\ ProcInit /\ LoadOff
    /\ nsteps = 0 /\ runs = 0 /\ steps0 = 0 /\ had_ckpt = FALSE

SpecInclude == InitInclude /\ [][NextSplit]_vars

SpecResplit == InitResplit /\ [][NextResplit]_vars

SpecSplit == InitSplit /\ [][NextSplit]_vars

(***************************************************************************)
(* C1: the train, valid and test subject sets of create_loaders are        *)
(* pairwise disjoint, and their union is exactly the age-filtered pool     *)
(* truncated to max_subj subjects.                                         *)
(***************************************************************************)
EligibleSet == {s \in Subjects : ages[s] # NoAge /\ args.lo <= ages[s] /\ ages[s] <= args.hi}

C1_Partition ==
    splitPc = "done" =>
        /\ splits[1] \cap splits[2] = {}
        /\ splits[1] \cap splits[3] = {}
        /\ splits[2] \cap splits[3] = {}
        /\ (splits[1] \cup splits[2] \cup splits[3]) = Range(IncludedSubs(ages, args))
        /\ (splits[1] \cup splits[2] \cup splits[3]) \subseteq EligibleSet
        /\ Cardinality(splits[1] \cup splits[2] \cup splits[3])
               = Min(args.max_subj, Cardinality(EligibleSet))
        /\ Cardinality(splits[1]) + Cardinality(splits[2]) + Cardinality(splits[3])
               = Min(args.max_subj, Cardinality(EligibleSet))

\* a call where all three splits are non-empty and truncation and the age
\* filter both removed a subject
C1_Witness ==
    /\ splitPc = "done"
    /\ splits[1] # {} /\ splits[2] # {} /\ splits[3] # {}
    /\ Cardinality(EligibleSet) < PoolSize

(***************************************************************************)
(* Shared vocabulary of the claims about train                             *)
(***************************************************************************)
\* the call is in its first epoch: no epoch of this call has completed
InFirstEpoch == pc \in {"batch", "eval_train", "eval_valid", "update"} /\ valid_losses = <<>>

\* a loading call that has just entered its loop
AtLoopEntry == pc = "loop" /\ valid_losses = <<>> /\ nwrites = 0

\* position of the best epoch in the histories of this call
BestIndex == best_epoch - start_epoch

\* patience 3 and the losses 0.5, 0.4, 0.45, 0.46, 0.47: train only compares
\* a loss with the best one so far, and these compare as 2, 0, 1, 1, 1 do
ScenarioLosses == <<2, 0, 1, 1, 1>>

(***************************************************************************)
(* C2: a non-timing call of train that ran an epoch returns exactly p      *)
(* epochs after its last improving epoch, never while the patience counter *)
(* is below p; with patience 3 and the scenario losses the best epoch is 2 *)
(* and the call returns after epoch 5.                                     *)
(***************************************************************************)
C2_StopsAfterPatience ==
    /\ (pc = "returned" /\ ~timing /\ valid_losses # <<>>) =>
          /\ j = p
          /\ epoch = best_epoch + p
          /\ Len(valid_losses) = epoch - start_epoch
          /\ BestIndex \in 1 .. Len(valid_losses)
          /\ \A x \in 1 .. Len(valid_losses) :
                /\ x < BestIndex => valid_losses[x] > valid_losses[BestIndex]
                /\ x > BestIndex => valid_losses[x] >= valid_losses[BestIndex]
    /\ (pc \in {"batch", "eval_train", "eval_valid", "update"} /\ ~timing) => j < p
    /\ (~timing /\ p = 3 /\ start_epoch = 0 /\ valid_losses = ScenarioLosses
             /\ pc \in {"loop", "returned"}) =>
          (best_epoch = 2 /\ epoch = 5 /\ j = p)
    /\ (~timing /\ p = 3 /\ Len(valid_losses) \in 1 .. 4
             /\ valid_losses = SubSeq(ScenarioLosses, 1, Len(valid_losses))) =>
          pc # "returned"

C2_Witness ==
    /\ pc = "returned" /\ ~timing /\ p = 3
    /\ valid_losses = ScenarioLosses
    /\ best_epoch = 2 /\ epoch = 5

(***************************************************************************)
(* C3: at the end of an epoch, a validation loss strictly below best_vloss *)
(* zeroes the patience counter, records the loss and the epoch as best and *)
(* (when saving) writes the checkpoint; any other loss, an equal one       *)
(* included, adds exactly 1 to the counter and leaves best loss, best      *)
(* epoch and checkpoint alone; a saving call then writes the ledger.       *)
(***************************************************************************)
C3_EpochEnd ==
    /\ [][pc = "update" =>
            IF valid_loss < best_vloss
            THEN /\ j' = 0
                 /\ best_vloss' = valid_loss
                 /\ best_epoch' = epoch
                 /\ save_model =>
                        ckpt' = [exists |-> TRUE, epoch |-> epoch + 1, state |-> net]
            ELSE /\ j' = j + 1
                 /\ best_vloss' = best_vloss
                 /\ best_epoch' = best_epoch
                 /\ ckpt' = ckpt]_vars
    /\ [][(pc = "save_ledger" /\ save_model) =>
            /\ ledger'.exists
            /\ ledger'.loss_score = best_vloss
            /\ ledger'.best_epoch = best_epoch
            /\ ledger'.n_epochs = epoch
            /\ ledger'.current_patience = j]_vars
    /\ [](pc = "save_ledger" =>
            /\ (valid_loss >= valid_losses[BestIndex] /\ BestIndex # Len(valid_losses)) => j >= 1
            /\ j = Len(valid_losses) - BestIndex)

\* an epoch whose loss equals the best one: the counter went up
C3_Witness ==
    /\ pc = "save_ledger" /\ save_model
    /\ valid_loss = best_vloss /\ j = 1 /\ best_epoch < epoch

(***************************************************************************)
(* C4: a saving call writes the checkpoint in an epoch exactly when that   *)
(* epoch's validation loss is strictly below best_vloss, and when it       *)
(* returns the checkpoint file holds the weights of the epoch the ledger   *)
(* records as best_epoch, which are not those of the final epoch.          *)
(***************************************************************************)
C4_CheckpointIsBest ==
    /\ [][(pc = "update" /\ save_model) =>
            ((ckpt' # ckpt) <=> (valid_loss < best_vloss))]_vars
    /\ [][pc # "update" => ckpt' = ckpt]_vars
    /\ []((pc = "returned" /\ save_model /\ valid_losses # <<>>) =>
            /\ ckpt.exists
            /\ ckpt.state = best_state
            /\ ckpt.epoch = best_epoch + 1
            /\ ledger.exists
            /\ ledger.best_epoch = best_epoch
            /\ ledger.n_epochs = epoch
            /\ best_epoch < epoch
            /\ ckpt.state # net)
    /\ []((pc = "returned" /\ save_model) =>
            (ckpt.exists /\ ledger.exists /\ ckpt.epoch = ledger.best_epoch + 1))

\* a saving call returned whose best epoch was neither its first nor its last
C4_Witness ==
    /\ pc = "returned" /\ save_model
    /\ BestIndex >= 2 /\ best_epoch < epoch
    /\ ckpt.state = best_state

(***************************************************************************)
(* C5: in the first epoch of a call that loaded a checkpoint and a ledger  *)
(* with best loss L, best_vloss is L, and that epoch counts as an          *)
(* improvement only if its validation loss is strictly below L.            *)
(***************************************************************************)
C5_ResumedBestLoss ==
    /\ (resumed /\ InFirstEpoch /\ nwrites = 0) => best_vloss = ledger.loss_score
    /\ (resumed /\ pc = "save_ledger" /\ Len(valid_losses) = 1 /\ j = 0) =>
            valid_loss < ledger.loss_score

(***************************************************************************)
(* C6: when a call loads a ledger that recorded the patience counter, the  *)
(* counter at the start of its first epoch is the recorded one, unless the *)
(* reset was asked for (mode "continue"), and then it is 0.                *)
(***************************************************************************)
C6_ResumedPatience ==
    (resumed /\ nwrites = 0 /\ ledger.exists /\ ledger.has_patience
        /\ (AtLoopEntry \/ (InFirstEpoch /\ pc = "batch"))) =>
            j = IF mode = "continue" THEN 0 ELSE ledger.current_patience

\* a first epoch that starts with a restored, non-zero counter
C6_Witness ==
    /\ resumed /\ nwrites = 0 /\ InFirstEpoch /\ pc = "batch"
    /\ mode # "continue"
    /\ j = ledger.current_patience /\ j > 0

C8_CheckpointLedgerAtomic ==
    ckpt.exists => (ledger.exists /\ ledger.best_epoch + 1 = ckpt.epoch)

C10_MissingCheckpointAborts ==
    (entry = "main" /\ mode \in {"continue", "evaluate"} /\ ~had_ckpt) =>
        /\ nsteps = steps0
        /\ pc = "exited" => exitCode > 0

(***************************************************************************)
(* C10 (amended): in evaluate mode without a checkpoint file the script    *)
(* ends before any optimizer step and without writing a file, with exit    *)
(* status 0; in continue mode without a checkpoint file train does not     *)
(* load and enters its loop from the fresh state (epoch 0, patience        *)
(* counter 0, best loss +infinity).                                        *)
(***************************************************************************)
C10_MissingCheckpoint ==
    /\ (entry = "main" /\ mode = "evaluate" /\ ~had_ckpt) =>
            /\ pc \in {"after_train", "exited"}
            /\ nsteps = steps0
            /\ nwrites = 0
            /\ ~ckpt.exists
            /\ pc = "exited" => exitCode = 0
    /\ (entry = "main" /\ mode = "continue" /\ ~had_ckpt) =>
            /\ ~resumed
            /\ pc # "prompt"
            /\ start_epoch = 0
            /\ AtLoopEntry => (epoch = 0 /\ j = 0 /\ best_vloss = Inf)
            /\ pc = "exited" => exitCode = 0

\* continue mode without a checkpoint: the run trained and saved
C10_Witness ==
    /\ entry = "main" /\ mode = "continue" /\ ~had_ckpt
    /\ pc = "returned" /\ nsteps > steps0 /\ ckpt.exists

(***************************************************************************)
(* C11: a loading process (train asked to load, or the script in evaluate  *)
(* mode) that finds a checkpoint file it cannot parse ends with a failure  *)
(* status in its next step, having taken no optimizer step and written no  *)
(* file: the checkpoint and the ledger are what they were.                 *)
(***************************************************************************)
C11_UnparsableCheckpointIsFatal ==
    /\ [][(pc \in {"train", "after_train"} /\ load_model /\ ckpt = Unparsable) =>
            /\ pc' = "exited" /\ exitCode' = 1
            /\ nsteps' = nsteps /\ nwrites' = nwrites
            /\ ckpt' = ckpt /\ ledger' = ledger]_vars
    /\ []((load_model /\ ckpt = Unparsable /\ pc \notin {"idle", "exited"}) =>
            /\ pc \in {"train", "after_train"}
            /\ nsteps = steps0 /\ nwrites = 0)

\* a loading call of train died on the damaged checkpoint, the ledger of the
\* earlier run still beside it
C11_Witness ==
    /\ pc = "exited" /\ exitCode = 1 /\ load_model
    /\ ckpt = Unparsable /\ ledger.exists /\ ledger.n_epochs > 0
    /\ nsteps = steps0 /\ nwrites = 0 /\ resumed

C13_TimingReturnsEarly ==
    /\ [][(timing /\ pc = "batch") =>
            /\ nsteps' = nsteps + 1
            /\ IF i + 1 = Min(1000, n_batches)
               THEN pc' = "returned"
               ELSE pc' = "batch" /\ i' = i + 1]_vars
    /\ [][(timing /\ pc = "loop") => (pc' = "batch" /\ i' = 0 /\ epoch' = 1)]_vars
    /\ [][(timing /\ pc \notin {"idle", "exited"}) =>
            (ckpt' = ckpt /\ ledger' = ledger /\ nwrites' = nwrites)]_vars
    /\ [](timing =>
            /\ pc \notin {"eval_train", "eval_valid", "update", "save_ledger", "prompt"}
            /\ j = 0 /\ best_vloss = Inf /\ best_epoch = Undef
            /\ valid_losses = <<>>
            /\ nwrites = 0
            /\ pc = "batch" => (epoch = 1 /\ i < Min(1000, n_batches))
            /\ pc = "returned" => (epoch = 1 /\ i + 1 = Min(1000, n_batches)))

\* a timing call returned after 1000 batches of a longer loader
C13_Witness ==
    /\ timing /\ pc = "returned"
    /\ n_batches > 1000 /\ i = 999 /\ epoch = 1
    /\ nsteps >= 1000

(***************************************************************************)
(* C14: load_data does not raise when files of subjects cannot be read:    *)
(* it returns a table whose samples and labels are exactly those of the    *)
(* trials of the readable subjects, for any set of unreadable subjects.    *)
(***************************************************************************)
ReadableRows == SelectSeq(loadIn.frame, LAMBDA r : r.subs \notin loadIn.unreadable)

C14_SkipsUnreadableSubjects ==
    (eager.ran /\ LoadFn(loadIn.dtype) = "load_data") =>
        /\ ~eager.raised
        /\ Len(eager.X) = Len(ReadableRows)
        /\ Len(eager.y) = Len(ReadableRows)
        /\ \A ix \in 1 .. Len(eager.y) : eager.y[ix] = Sex(eager.rows[ix].subs)
        /\ Range(eager.rows) = Range(ReadableRows)

(***************************************************************************)
(* C15: with every file readable, load_data and chunkedMegDataset give,    *)
(* for every trial of the dataframe, samples of the same shape with the    *)
(* same normalized values and the same label.                              *)
(***************************************************************************)
C15_EagerAndChunkedAgree ==
    (eager.ran /\ chunked.ran /\ loadIn.unreadable = {}
          /\ LoadFn(loadIn.dtype) = "load_data") =>
        /\ ~eager.raised /\ ~chunked.raised
        /\ Len(eager.X) = Len(chunked.X)
        /\ \A ix \in 1 .. Len(eager.X) : \A jx \in 1 .. Len(chunked.X) :
              eager.rows[ix] = chunked.rows[jx] =>
                  /\ eager.X[ix].shape = chunked.X[jx].shape
                  /\ eager.X[ix].flat = chunked.X[jx].flat
                  /\ eager.y[ix] = chunked.y[jx]

(***************************************************************************)
(* C16: two calls of create_loaders with the same seed (and the same       *)
(* fraction and max_subj) on the same filtered subject pool give the same  *)
(* train, valid and test subject sets, whatever state the torch generator  *)
(* was in when each call began.                                            *)
(***************************************************************************)
FilteredPool(c) == FilterAge(c.ages, UniqueSubs, c.args.lo, c.args.hi)

C16_SameSeedSameSplit ==
    \A x \in DOMAIN calls : \A y \in DOMAIN calls :
        (/\ calls[x].args.seed = calls[y].args.seed
         /\ calls[x].args.k = calls[y].args.k
         /\ calls[x].args.max_subj = calls[y].args.max_subj
         /\ FilteredPool(calls[x]) = FilteredPool(calls[y]))
        => calls[x].splits = calls[y].splits

\* a second call that found the generator in another state and read another
\* ages table, with subjects in train and in test
C16_Witness ==
    /\ Len(calls) = 2
    /\ calls[1].rng # calls[2].rng
    /\ calls[1].ages # calls[2].ages
    /\ calls[2].splits[1] # {} /\ calls[2].splits[3] # {}
    /\ calls[1].splits = calls[2].splits

(***************************************************************************)
(* C17: with N included subjects and the train fraction f, the split sizes *)
(* are train = floor(N*f), valid = floor((N - train)/2) and                *)
(* test = N - train - valid: they sum to N and test - valid is 0 or 1;     *)
(* for N = 100 and f = 0.8 they are 80, 10, 10.                            *)
(***************************************************************************)
C17_SplitSizes ==
    /\ splitPc = "done" =>
         LET N  == Len(IncludedSubs(ages, args))
             tr == Cardinality(splits[1])
             va == Cardinality(splits[2])
             te == Cardinality(splits[3])
         IN  /\ tr * FracDen <= N * args.k /\ N * args.k < (tr + 1) * FracDen
             /\ 2 * va <= N - tr /\ N - tr < 2 * (va + 1)
             /\ te = N - tr - va
             /\ tr + va + te = N
             /\ te - va \in {0, 1}
             /\ (te - va = 1) <=> ((N - tr) % 2 = 1)
    /\ TrainSizeOf(100, 4, 5) = 80
    /\ ValidOf(100, TrainSizeOf(100, 4, 5)) = 10
    /\ TestOf(100, TrainSizeOf(100, 4, 5), ValidOf(100, TrainSizeOf(100, 4, 5))) = 10

\* an odd remainder: test got one subject more than valid
C17_Witness ==
    /\ splitPc = "done"
    /\ Cardinality(splits[1]) >= 1
    /\ Cardinality(splits[3]) = Cardinality(splits[2]) + 1

(***************************************************************************)
(* C18 (as claimed): train is the first train-size subjects of the         *)
(* permuted, filtered, truncated list, valid the next valid-size subjects, *)
(* test the remaining ones.                                                *)
(***************************************************************************)
C18_ContiguousRanges ==
    splitPc = "done" =>
        LET subs == IncludedSubs(ages, args)
            tr   == Cardinality(splits[1])
            va   == Cardinality(splits[2])
        IN  /\ splits[1] = {subs[x] : x \in 1 .. tr}
            /\ splits[2] = {subs[x] : x \in (tr + 1) .. (tr + va)}
            /\ splits[3] = {subs[x] : x \in (tr + va + 1) .. Len(subs)}

(***************************************************************************)
(* C18 (amended): the three splits are the subjects found at the positions *)
(* that random_split draws: a second seeded permutation of the positions   *)
(* 1..N of the permuted, filtered, truncated list is cut into consecutive  *)
(* chunks of train-size, valid-size and test-size positions; train is the  *)
(* subjects at the positions of the first chunk, valid of the second, test *)
(* of the third.                                                           *)
(***************************************************************************)
C18_ChunksOfSecondPermutation ==
    splitPc = "done" =>
        LET subs == IncludedSubs(ages, args)
            N    == Len(subs)
            perm == TorchRandperm(args.seed, N)
            tr   == TrainSize(N, args.k)
            va   == ValidSize(N, args.k)
        IN  /\ Range(perm) = 1 .. N
            /\ splits[1] = {subs[perm[x]] : x \in 1 .. tr}
            /\ splits[2] = {subs[perm[x]] : x \in (tr + 1) .. (tr + va)}
            /\ splits[3] = {subs[perm[x]] : x \in (tr + va + 1) .. N}

\* three non-empty splits, none of them a range of the list
C18_Witness ==
    /\ splitPc = "done"
    /\ \A t \in 1 .. 3 : splits[t] # {}
    /\ LET subs == IncludedSubs(ages, args)
           tr   == Cardinality(splits[1])
           va   == Cardinality(splits[2])
       IN  /\ splits[1] # {subs[x] : x \in 1 .. tr}
           /\ splits[2] # {subs[x] : x \in (tr + 1) .. (tr + va)}
           /\ splits[3] # {subs[x] : x \in (tr + va + 1) .. Len(subs)}

(***************************************************************************)
(* C19: a call of train that is not asked to load (the script in overwrite *)
(* or empty_run mode, whatever files are under save_path) enters its loop  *)
(* with epoch counter 0, patience counter 0 and best loss +infinity, with  *)
(* the weights it was given, and without taking the loading branch: what   *)
(* the checkpoint and the ledger hold has no part in it.                   *)
(***************************************************************************)
C19_FreshStart ==
    /\ [][(pc = "train" /\ ~load_model) =>
            /\ pc' = "loop"
            /\ epoch' = 0 /\ j' = 0 /\ best_vloss' = Inf
            /\ valid_losses' = <<>> /\ train_losses' = <<>>
            /\ net' = net
            /\ ~resumed'
            /\ ckpt' = ckpt /\ ledger' = ledger]_vars
    /\ []((entry = "main" /\ mode \in {"overwrite", "empty_run"}) =>
            (~load_model /\ ~resumed))
    /\ []((~load_model /\ pc \notin {"idle", "exited"}) =>
            /\ ~resumed /\ lpatience = Undef /\ start_epoch = 0
            /\ pc # "prompt"
            /\ InFirstEpoch => epoch = 1
            /\ (InFirstEpoch /\ pc = "batch") => (j = 0 /\ best_vloss = Inf))

\* overwrite mode training its first epoch beside a ledger of an earlier run
\* and a checkpoint file that could not even be parsed
C19_Witness ==
    /\ entry = "main" /\ mode = "overwrite"
    /\ InFirstEpoch /\ pc = "batch" /\ epoch = 1 /\ j = 0
    /\ ckpt = Unparsable
    /\ ledger.exists /\ ledger.n_epochs > 1 /\ ledger.current_patience > 0

(***************************************************************************)
(* C20: a call that loads a ledger without the fields current_patience and *)
(* patience does not fail: it enters its loop with the patience counter 0  *)
(* and the configured patience as the loaded one, and no confirmation is   *)
(* asked for.                                                              *)
(***************************************************************************)
C20_OldSchemaLedger ==
    /\ [][(/\ pc = "train" /\ load_model
           /\ ckpt.exists /\ ckpt # Unparsable
           /\ ledger.exists /\ ~ledger.has_patience) =>
            /\ pc' = "loop"
            /\ exitCode' = NoExit
            /\ resumed'
            /\ j' = 0
            /\ lpatience' = patience
            /\ answer' = NoAnswer]_vars
    /\ []((/\ resumed /\ pc \notin {"idle", "exited"}
           /\ ledger.exists /\ ~ledger.has_patience) =>
            /\ pc # "prompt" /\ answer = NoAnswer
            /\ lpatience = patience
            /\ (InFirstEpoch /\ pc = "batch") => j = 0)

\* train called with load_model=True and the default mode, the branch that
\* reads the two fields, in its first epoch on an old ledger
C20_Witness ==
    /\ entry = "call" /\ mode # "continue" /\ resumed
    /\ ledger.exists /\ ~ledger.has_patience
    /\ InFirstEpoch /\ pc = "batch" /\ nsteps > steps0
    /\ j = 0 /\ lpatience = patience

(***************************************************************************)
(* C21: when create_loaders returns, the list holds the loaders of train,   *)
(* valid and test in that order; entry i is None, and no dataset was built *)
(* for split i, exactly when include[i] is not 1; the subjects of an       *)
(* included split are those the split gets whatever the flags are.         *)
(***************************************************************************)
C21_IncludeFlags ==
    /\ (splitPc = "done" /\ loaders.state = "returned") =>
          /\ Len(loaders.list) = 3
          /\ \A ix \in 1 .. 3 :
                /\ (loaders.list[ix] = None) <=> (opts.include[ix] # 1)
                /\ (ix \in built) <=> (opts.include[ix] = 1)
                /\ (opts.include[ix] = 1) =>
                      /\ loaders.list[ix] = Loader(SplitSubjects(ages, args)[ix])
                      /\ loaders.list[ix].subjects = splits[ix]
          /\ LET N == Len(IncludedSubs(ages, args))
             IN  /\ opts.include[1] = 1 =>
                       Cardinality(loaders.list[1].subjects) = TrainSize(N, args.k)
                 /\ opts.include[2] = 1 =>
                       Cardinality(loaders.list[2].subjects) = ValidSize(N, args.k)
                 /\ opts.include[3] = 1 =>
                       Cardinality(loaders.list[3].subjects) = TestSize(N, args.k)
    /\ splitPc = "done" => (\A ix \in built : opts.include[ix] = 1)

\* only the validation loader was asked for; the other two splits have
\* subjects, one flag is 0 and one is another value than 0 and 1
C21_Witness ==
    /\ splitPc = "done" /\ loaders.state = "returned"
    /\ opts.include = <<0, 1, 2>>
    /\ loaders.list[2].subjects # {} /\ splits[1] # {} /\ splits[3] # {}
    /\ loaders.list[1] = None /\ loaders.list[3] = None
    /\ built = {2}

\* the positions of a process inside train
InTrain ==
    pc \in {"train", "prompt", "loop", "batch", "eval_train", "eval_valid", "update",
            "save_ledger", "returned"}

(***************************************************************************)
(* C22: the script in empty_run mode calls train with saving and loading   *)
(* disabled, and no step of that call creates, overwrites or reads the     *)
(* checkpoint or the ledger, however many epochs it runs and whatever the  *)
(* validation losses are.                                                  *)
(***************************************************************************)
C22_EmptyRunTouchesNoFile ==
    /\ [][(entry = "main" /\ mode = "empty_run" /\ InTrain) =>
            /\ ckpt' = ckpt /\ ledger' = ledger
            /\ nwrites' = nwrites
            /\ ~resumed']_vars
    /\ []((entry = "main" /\ mode = "empty_run" /\ InTrain) =>
            /\ ~save_model /\ ~load_model
            /\ nwrites = 0
            /\ ~resumed /\ lpatience = Undef
            /\ ckpt.exists = had_ckpt)

\* an empty run that trained for several epochs, with improvements, beside
\* the files of an earlier run
C22_Witness ==
    /\ entry = "main" /\ mode = "empty_run" /\ pc = "returned"
    /\ Len(valid_losses) >= 2 /\ nsteps > steps0
    /\ best_epoch # Undef /\ best_vloss < ledger.loss_score
    /\ ckpt.exists /\ ledger.exists /\ nwrites = 0

(***************************************************************************)
(* C23: the script in evaluate mode never calls train: it takes no          *)
(* optimizer step and leaves the checkpoint and the ledger as they are; it *)
(* loads the weights of the stored checkpoint into the network, reads the  *)
(* ledger, and ends.                                                       *)
(***************************************************************************)
C23_EvaluateOnly ==
    /\ [][(entry = "main" /\ mode = "evaluate" /\ pc = "after_train") =>
            /\ pc' = "exited"
            /\ ckpt' = ckpt /\ ledger' = ledger
            /\ nsteps' = nsteps /\ nwrites' = nwrites
            /\ (ckpt.exists /\ ckpt # Unparsable) => net' = ckpt.state]_vars
    /\ []((entry = "main" /\ mode = "evaluate" /\ pc \notin {"idle", "exited"}) =>
            pc = "after_train")
    /\ []((entry = "main" /\ mode = "evaluate") =>
            /\ nsteps = steps0 /\ nwrites = 0
            /\ ~resumed /\ epoch = 0 /\ valid_losses = <<>>
            /\ ckpt.exists = had_ckpt
            /\ (pc = "exited" /\ ckpt.exists /\ ckpt # Unparsable) => net = ckpt.state
            /\ (pc = "exited" /\ ckpt.exists /\ ckpt # Unparsable /\ ledger.exists) =>
                    exitCode = 0)

\* an evaluation of what an earlier run of several epochs left
C23_Witness ==
    /\ entry = "main" /\ mode = "evaluate" /\ pc = "exited" /\ exitCode = 0
    /\ had_ckpt /\ ckpt.exists /\ net = ckpt.state /\ net > 0
    /\ ledger.exists /\ ledger.n_epochs >= 2
    /\ nsteps = steps0 /\ nsteps > 0 /\ nwrites = 0

(***************************************************************************)
(* C24: a non-timing call of train returns from the loop test and from     *)
(* nowhere else, exactly when the patience counter has reached p; once in  *)
(* its loop it eventually returns, the losses being unable to improve for  *)
(* ever; no count of epochs or steps stops it: when it returns after some  *)
(* epochs, its last p epochs are exactly those after its best one, and     *)
(* none of them improved on it.                                            *)
(***************************************************************************)
C24_PatienceOnlyStops ==
    /\ [][(~timing /\ pc = "loop") =>
            ((pc' = "returned") <=> (j >= p))]_vars
    /\ [][(~timing' /\ pc' = "returned" /\ pc # "returned") =>
            (pc = "loop" /\ j >= p)]_vars
    /\ []((~timing /\ pc \in {"batch", "eval_train", "eval_valid", "update"}) => j < p)
    /\ []((~timing /\ pc = "batch") => nsteps < LiveSteps)
    /\ []((~timing /\ pc = "returned" /\ valid_losses # <<>>) =>
            /\ j = p
            /\ Len(valid_losses) - BestIndex = p
            /\ \A x \in 1 .. Len(valid_losses) :
                  x > BestIndex => valid_losses[x] >= valid_losses[BestIndex])
    /\ ((~timing /\ pc = "loop") ~> (pc = "returned"))

\* a call with patience above 1 that returned after as many improvements as
\* there are losses, with an epoch that did not improve in between
C24_Witness ==
    /\ ~timing /\ pc = "returned" /\ p >= 2 /\ j = p
    /\ valid_losses[BestIndex] = 0
    /\ BestIndex >= MaxLoss + 2

\* the positions of a call inside its epoch loop
InEpochLoop ==
    pc \in {"loop", "batch", "eval_train", "eval_valid", "update", "save_ledger"}

(***************************************************************************)
(* C25: an epoch of a non-timing call goes through the batches of the      *)
(* train loader in order, each once, with one optimizer step per batch;    *)
(* then it evaluates on the train split, then on the validation split,     *)
(* then updates the patience counter, the best loss and the checkpoint,    *)
(* then the ledger.  No step is taken outside the pass over the batches,   *)
(* and nothing is evaluated, counted or saved during it.                   *)
(***************************************************************************)
C25_EpochOrder ==
    /\ [][(~timing /\ pc = "loop" /\ pc' # "returned") => (pc' = "batch" /\ i' = 0)]_vars
    /\ [][(~timing /\ pc = "batch") =>
            /\ nsteps' = nsteps + 1
            /\ IF i + 1 < n_batches
               THEN pc' = "batch" /\ i' = i + 1
               ELSE pc' = "eval_train"
            /\ j' = j /\ best_vloss' = best_vloss /\ best_epoch' = best_epoch
            /\ valid_losses' = valid_losses /\ train_losses' = train_losses
            /\ valid_loss' = valid_loss
            /\ ckpt' = ckpt /\ ledger' = ledger]_vars
    /\ [][(pc = "eval_train") =>
            /\ pc' = "eval_valid"
            /\ j' = j /\ best_vloss' = best_vloss
            /\ ckpt' = ckpt /\ ledger' = ledger]_vars
    /\ [][(pc = "eval_valid") =>
            /\ pc' = "update"
            /\ j' = j /\ best_vloss' = best_vloss
            /\ ckpt' = ckpt /\ ledger' = ledger]_vars
    /\ [][(pc = "update") => (pc' = "save_ledger" /\ ledger' = ledger)]_vars
    /\ [][(pc = "save_ledger") => (pc' = "loop" /\ ckpt' = ckpt /\ j' = j)]_vars
    /\ [][(nsteps' # nsteps) => (pc = "batch")]_vars
    /\ [][(valid_loss' # valid_loss /\ InEpochLoop) => (pc = "eval_valid")]_vars
    /\ [][(ckpt' # ckpt) => (pc = "update")]_vars
    /\ [][(ledger' # ledger) => (pc = "save_ledger")]_vars
    /\ [][((j' # j \/ best_vloss' # best_vloss) /\ InEpochLoop) => (pc = "update")]_vars
    /\ []((~timing /\ pc = "batch") =>
            (i < n_batches /\ nsteps - steps0 = Len(valid_losses) * n_batches + i))
    /\ []((~timing /\ pc \in {"eval_train", "eval_valid", "update"}) =>
            nsteps - steps0 = (Len(valid_losses) + 1) * n_batches)
    /\ []((~timing /\ pc \in {"save_ledger", "loop", "returned"}) =>
            nsteps - steps0 = Len(valid_losses) * n_batches)

\* the end of the second epoch of a call on a loader of several batches
C25_Witness ==
    /\ ~timing /\ pc = "save_ledger" /\ save_model
    /\ n_batches >= 2 /\ Len(valid_losses) = 2
    /\ nsteps - steps0 = 2 * n_batches

(***************************************************************************)
(* C26: create_loaders includes min(max_subj, n) subjects, n being the     *)
(* number of subjects whose age lies in [age[0], age[1]], bounds included; *)
(* a subject without age, or with an age outside the range, is in no       *)
(* split and the call still returns; the subjects max_subj leaves are all  *)
(* age-eligible, and when max_subj is at least n they are all of them,     *)
(* those whose age is one of the bounds included.                          *)
(***************************************************************************)
InRange == {s \in Subjects : ages[s] \in args.lo .. args.hi}

AllSplits == splits[1] \cup splits[2] \cup splits[3]

C26_IncludedCount ==
    /\ [][(splitPc = "call") => (splitPc' = "done" /\ loaders'.state = "returned")]_vars
    /\ [](splitPc = "done" =>
            /\ Cardinality(AllSplits) = Min(args.max_subj, Cardinality(InRange))
            /\ Len(IncludedSubs(ages, args)) = Min(args.max_subj, Cardinality(InRange))
            /\ AllSplits \subseteq InRange
            /\ \A s \in Subjects :
                  (ages[s] = NoAge \/ ages[s] < args.lo \/ ages[s] > args.hi) =>
                      s \notin AllSplits
            /\ (args.max_subj >= Cardinality(InRange)) => AllSplits = InRange)

\* a call on a range with two distinct bounds that took a subject of each
\* bound, left out an eligible one for max_subj, and met a subject
\* without age
C26_Witness ==
    /\ splitPc = "done" /\ args.lo < args.hi
    /\ \E s \in AllSplits : ages[s] = args.lo
    /\ \E s \in AllSplits : ages[s] = args.hi
    /\ Cardinality(AllSplits) = args.max_subj
    /\ Cardinality(InRange) > args.max_subj
    /\ \E s \in Subjects : ages[s] = NoAge

(***************************************************************************)
(* C27: after every completed epoch of a saving call, fresh or resumed,    *)
(* the ledger on disk has one train loss and one validation loss for       *)
(* every epoch since the fresh start (n_epochs entries each), and its      *)
(* current_patience and n_epochs are the patience counter and the epoch    *)
(* counter of the call.                                                    *)
(***************************************************************************)
C27_LedgerFullHistory ==
    (save_model /\ ~timing /\ pc = "loop" /\ valid_losses # <<>>) =>
        /\ ledger.exists
        /\ Len(ledger.valid_loss) = ledger.n_epochs
        /\ Len(ledger.train_loss) = ledger.n_epochs
        /\ ledger.current_patience = j
        /\ ledger.n_epochs = epoch

(***************************************************************************)
(* C28: over a fresh saving run and the continue runs that follow it, the  *)
(* checkpoint is replaced only by the state of an epoch whose validation   *)
(* loss is strictly below the loss of the checkpoint it replaces (the      *)
(* best loss the ledger beside it records), the best loss of the ledger    *)
(* never goes up, and it is at most every validation loss of the run.      *)
(***************************************************************************)
\* a saving run of the script that belongs to such a sequence: a run that
\* found no checkpoint, or a continue run
SequenceRun == entry = "main" /\ save_model /\ (mode = "continue" \/ ~had_ckpt)

C28_CheckpointLossNeverIncreases ==
    /\ [][(SequenceRun /\ pc = "update" /\ ckpt.exists /\ ledger.exists /\ ckpt' # ckpt) =>
            (valid_loss < ledger.loss_score)]_vars
    /\ [][(SequenceRun /\ pc = "save_ledger" /\ ledger.exists) =>
            (ledger'.loss_score <= ledger.loss_score)]_vars
    /\ []((SequenceRun /\ pc = "loop" /\ valid_losses # <<>>) =>
            \A x \in 1 .. Len(valid_losses) : ledger.loss_score <= valid_losses[x])

====
